---- MODULE Spec2Model ----
(***************************************************************************)
(* Model of quantize_model_test_base.py: the QuantizedModelTest fixture.   *)
(* The four model builders (_create_matmul_model,                          *)
(* _create_matmul_and_same_scale_model, _create_conv2d_model,              *)
(* _create_einsum_model) and the einsum shape deriver                      *)
(* (_prepare_sample_einsum_datashapes).                                    *)
(*                                                                         *)
(* Python values are encoded as follows.                                   *)
(*   - Optional[T]: the empty set is None, the singleton {v} is the value. *)
(*   - str: a sequence of one-character strings where the code indexes or  *)
(*     slices it (the einsum equation), a TLA+ string where the code only  *)
(*     compares it (op names, paths).                                      *)
(*   - a traced tf.function: the sequence of the ops its body emits.       *)
(***************************************************************************)
EXTENDS Integers, Sequences, FiniteSets, TLC

VARIABLES
  disk,        \* saved_model_path -> Optional[artifact]: what save() wrote there
  last,        \* the most recent builder call: its arguments and what it did
  nextId,      \* identity given to the next constructed model object
  einsum_in,   \* Optional: arguments of the _prepare_sample_einsum_datashapes call
  einsum_out   \* Optional: the 5-tuple that call returned

vars == <<disk, last, nextId, einsum_in, einsum_out>>

\* ------------------------------------------------------------------ bounds

\* Builder calls per behaviour.
MaxCalls == 2
\* Labels in one einsum equation, over its two operands and its output.
MaxEqLabels == 4

\* ------------------------------------------------------------ Python values

None == {}

Some(v) == {v}

Unwrap(o) == CHOOSE v \in o : TRUE

Min(S) == CHOOSE m \in S : \A n \in S : m <= n

\* str.find(sub): lowest 0-based index of sub in s, -1 when absent.
Find(s, sub) ==
  LET hits == {i \in 0..(Len(s) - Len(sub)) : SubSeq(s, i + 1, i + Len(sub)) = sub}
  IN IF hits = {} THEN -1 ELSE Min(hits)

\* Python's clamping of one slice bound against a length.
SliceIndex(i, n) ==
  LET j == IF i < 0 THEN i + n ELSE i
  IN IF j < 0 THEN 0 ELSE IF j > n THEN n ELSE j

\* s[lo:hi]
Slice(s, lo, hi) == SubSeq(s, SliceIndex(lo, Len(s)) + 1, SliceIndex(hi, Len(s)))

\* s[lo:]
SliceFrom(s, lo) == Slice(s, lo, Len(s))

\* c in s
In(c, s) == \E i \in 1..Len(s) : s[i] = c

\* seq[-1]
LastOf(s) == s[Len(s)]

\* ------------------------------------------- _prepare_sample_einsum_datashapes

\* The table with the size of 'a' entered for 'e'.
label_to_size_get_wrong(label) ==
  IF label = "a" THEN Some(4)
  ELSE IF label = "b" THEN Some(32)
  ELSE IF label = "c" THEN Some(64)
  ELSE IF label = "d" THEN Some(128)
  ELSE IF label = "e" THEN Some(4)
  ELSE None

\* label_to_size.get(label): the table of line 328, None for any other character.
label_to_size_get(label) ==
  IF label = "a" THEN Some(4)
  ELSE IF label = "b" THEN Some(32)
  ELSE IF label = "c" THEN Some(64)
  ELSE IF label = "d" THEN Some(128)
  ELSE IF label = "e" THEN Some(8)
  ELSE None

\* [label_to_size.get(l) for l in labels]
sample_shape(labels) == [i \in 1..Len(labels) |-> label_to_size_get(labels[i])]

\* The slice that starts after both characters of the arrow.
out_labels_skip_arrow(equation, arrow_pos) == SliceFrom(equation, arrow_pos + 2)

\* equation[arrow_pos + 1 :]
out_labels_of(equation, arrow_pos) == SliceFrom(equation, arrow_pos + 1)

\* The loop of lines 340-342: labels of x that also occur in y.
contracting_dims_of(x_labels, y_labels) ==
  {x_labels[i] : i \in {j \in 1..Len(x_labels) : In(x_labels[j], y_labels)}}

\* The comprehension with its condition inverted.
unknown_signature_inverted(labels, shape, contracting_dims) ==
  [cidx \in 1..Len(labels) |->
     IF labels[cidx] \in contracting_dims THEN None ELSE shape[cidx]]

\* The comprehension of lines 343-346 and 347-350.
unknown_signature(labels, shape, contracting_dims) ==
  [cidx \in 1..Len(labels) |->
     IF labels[cidx] \notin contracting_dims THEN None ELSE shape[cidx]]

_prepare_sample_einsum_datashapes(equation, generate_unknown_shape_signature, use_bias) ==
  LET comma_pos == Find(equation, <<",">>)
      arrow_pos == Find(equation, <<"-", ">">>)
      x_labels == Slice(equation, 0, comma_pos)
      y_labels == Slice(equation, comma_pos + 1, arrow_pos)
      out_labels == out_labels_of(equation, arrow_pos)
      x_shape == sample_shape(x_labels)
      y_shape == sample_shape(y_labels)
      bias_shape == IF use_bias
                    THEN Some(SliceFrom(sample_shape(out_labels), -1))
                    ELSE None
      contracting_dims == IF generate_unknown_shape_signature
                          THEN contracting_dims_of(x_labels, y_labels)
                          ELSE {}
      x_signature == IF generate_unknown_shape_signature
                     THEN unknown_signature(x_labels, x_shape, contracting_dims)
                     ELSE x_shape
      y_signature == IF generate_unknown_shape_signature
                     THEN unknown_signature(y_labels, y_shape, contracting_dims)
                     ELSE y_shape
  IN [x_shape |-> x_shape, y_shape |-> y_shape, bias_shape |-> bias_shape,
      x_signature |-> x_signature, y_signature |-> y_signature]

\* ------------------------------------------------------------ einsum inputs

Labels == {"a", "b", "c", "d", "e"}

LabelStrings(n) == [1..n -> Labels]

\* 'X,Y->Z'
Equation(x, y, z) == x \o <<",">> \o y \o <<"-", ">">> \o z

EinsumCall(x, y, z, gen, bias) ==
  [equation |-> Equation(x, y, z), x |-> x, y |-> y, z |-> z,
   generate_unknown_shape_signature |-> gen, use_bias |-> bias]

LengthSplits ==
  {t \in (0..MaxEqLabels) \X (0..MaxEqLabels) \X (0..MaxEqLabels) :
     t[1] + t[2] + t[3] <= MaxEqLabels}

\* ------------------------------------------------------------ builder values

\* setUp: the three temporary directories a test passes as saved_model_path.
Paths == {"input", "output", "output2"}

\* Shapes and flags the tests draw from.
InputShape == <<1, 2>>

WeightShapes == {<<2, 3>>}

BiasSizes == {None, Some(1), Some(3)}

ActivationFns == {None, Some("relu")}

ConvInputShape == <<1, 3, 4, 2>>

FilterShapes == {<<2, 3, 2, 2>>}

SameScaleOps == {"concatenate", "gather", "pad", "reshape", "select", "slice", "transpose"}

UnknownOps == {"add", "Reshape"}

\* One entry of the log of what a builder call did, in program order.
Event(ev, obj, path) == [ev |-> ev, obj |-> obj, path |-> path]

\* The state a running call threads through its statements.
CallState(d) == [disk |-> d, events |-> <<>>]

\* `model = Cls(...)`: the object now exists.
Construct(st, model) ==
  [st EXCEPT !.events = Append(@, Event("construct", model.id, ""))]

\* `model.fn.get_concrete_function(spec)`: the body of fn is traced.
get_concrete_function(st, model) ==
  [st EXCEPT !.events = Append(@, Event("trace", model.id, ""))]

\* A save that ignores the caller's path.
save_to_fixed_path(st, model, saved_model_path, fn) ==
  [disk |-> [st.disk EXCEPT !["output"] =
               Some([cls |-> model.cls, fn |-> fn])],
   events |-> Append(st.events, Event("save", model.id, "output"))]

\* saved_model_save.save(model, saved_model_path, signatures=...): the artifact
\* directory at that path now holds the serialized model.
saved_model_save(st, model, saved_model_path, fn) ==
  [disk |-> [st.disk EXCEPT ![saved_model_path] =
               Some([cls |-> model.cls, fn |-> fn])],
   events |-> Append(st.events, Event("save", model.id, saved_model_path))]

\* `return model`
Returned(st, model, ops) ==
  [outcome |-> "returned", err |-> "", ret |-> Some(model.id),
   model |-> Some(model), ops |-> ops, disk |-> st.disk,
   events |-> Append(st.events, Event("return", model.id, ""))]

\* An exception leaves the builder.
Raised(st, err, model) ==
  [outcome |-> "raised", err |-> err, ret |-> None,
   model |-> model, ops |-> <<>>, disk |-> st.disk,
   events |-> Append(st.events, Event("raise", 0, ""))]

\* What tracing a tf.function body gives: its ops, or the exception it raised.
Traced(ops) == [raised |-> FALSE, err |-> "", ops |-> ops]

TraceError(err) == [raised |-> TRUE, err |-> err, ops |-> <<>>]

\* ------------------------------------------------------- _create_matmul_model

\* MatmulModel.__init__
MatmulModel__init__(id, weight_shape, bias_size, activation_fn, use_biasadd) ==
  [cls |-> "MatmulModel", id |-> id, bias_size |-> bias_size,
   activation_fn |-> activation_fn, use_biasadd |-> use_biasadd,
   filters |-> weight_shape,
   bias |-> IF bias_size # None THEN Some(<<Unwrap(bias_size)>>) ELSE None]

\* MatmulModel.matmul, traced
MatmulModel_matmul(self) == Traced(<<"matmul">>)

\* if bias_size is None and has_bias: bias_size = weight_shape[-1]
default_bias_size(bias_size, has_bias, weight_shape) ==
  IF bias_size = None /\ has_bias THEN Some(LastOf(weight_shape)) ELSE bias_size

\* An assertion that checks one direction only.
bias_assert_one_sided(bias_size, has_bias) == (bias_size = None) => ~has_bias

\* assert (bias_size is None) != has_bias
bias_assert(bias_size, has_bias) == (bias_size = None) # has_bias

_create_matmul_model(d, id, input_shape, weight_shape, saved_model_path, has_bias, activation_fn, bias_size, use_biasadd) ==
  LET st0 == CallState(d)
      bias_size_1 == default_bias_size(bias_size, has_bias, weight_shape)
  IN IF ~bias_assert(bias_size_1, has_bias)
     THEN Raised(st0, "AssertionError", None)
     ELSE LET \* line 123 passes three arguments: use_biasadd takes its default
              model == MatmulModel__init__(id, weight_shape, bias_size_1,
                                           activation_fn, TRUE)
              st1 == Construct(st0, model)
              traced == MatmulModel_matmul(model)
              st2 == get_concrete_function(st1, model)
              st3 == saved_model_save(st2, model, saved_model_path, "matmul")
          IN Returned(st3, model, traced.ops)

\* ---------------------------------------- _create_matmul_and_same_scale_model

\* MatmulAndSameScaleModel.__init__
MatmulAndSameScaleModel__init__(id, weight_shape, same_scale_op) ==
  [cls |-> "MatmulAndSameScaleModel", id |-> id, filters |-> weight_shape,
   same_scale_op |-> same_scale_op]

\* The dispatch without its 'transpose' branch.
matmul_and_same_scale_no_transpose(self) ==
  LET op == self.same_scale_op
  IN IF op = "concatenate" THEN Traced(<<"matmul", "ones_like", "concat">>)
     ELSE IF op = "gather" THEN Traced(<<"matmul", "gather">>)
     ELSE IF op = "pad" THEN Traced(<<"matmul", "rank", "ones", "pad">>)
     ELSE IF op = "reshape" THEN Traced(<<"matmul", "size", "reshape">>)
     ELSE IF op = "select"
       THEN Traced(<<"matmul", "convert_to_tensor", "ones_like", "select">>)
     ELSE IF op = "slice"
       THEN Traced(<<"matmul", "rank", "zeros", "rank", "ones", "slice">>)
     ELSE TraceError("NotImplementedError")

\* MatmulAndSameScaleModel.matmul_and_same_scale, traced
matmul_and_same_scale(self) ==
  LET op == self.same_scale_op
  IN IF op = "concatenate" THEN Traced(<<"matmul", "ones_like", "concat">>)
     ELSE IF op = "gather" THEN Traced(<<"matmul", "gather">>)
     ELSE IF op = "pad" THEN Traced(<<"matmul", "rank", "ones", "pad">>)
     ELSE IF op = "reshape" THEN Traced(<<"matmul", "size", "reshape">>)
     ELSE IF op = "select"
       THEN Traced(<<"matmul", "convert_to_tensor", "ones_like", "select">>)
     ELSE IF op = "slice"
       THEN Traced(<<"matmul", "rank", "zeros", "rank", "ones", "slice">>)
     ELSE IF op = "transpose" THEN Traced(<<"matmul", "transpose">>)
     ELSE TraceError("NotImplementedError")

\* The variant that serializes before the signature is traced.
create_same_scale_save_first(d, id, input_shape, weight_shape, saved_model_path, same_scale_op) ==
  LET model == MatmulAndSameScaleModel__init__(id, weight_shape, same_scale_op)
      st1 == Construct(CallState(d), model)
      st2 == saved_model_save(st1, model, saved_model_path,
                              "matmul_and_same_scale")
      traced == matmul_and_same_scale(model)
      st3 == get_concrete_function(st2, model)
  IN IF traced.raised
     THEN Raised(st3, traced.err, Some(model))
     ELSE Returned(st3, model, traced.ops)

_create_matmul_and_same_scale_model(d, id, input_shape, weight_shape, saved_model_path, same_scale_op) ==
  LET model == MatmulAndSameScaleModel__init__(id, weight_shape, same_scale_op)
      st1 == Construct(CallState(d), model)
      \* the signatures argument is evaluated before save is called
      traced == matmul_and_same_scale(model)
      st2 == get_concrete_function(st1, model)
  IN IF traced.raised
     THEN Raised(st2, traced.err, Some(model))
     ELSE LET st3 == saved_model_save(st2, model, saved_model_path,
                                      "matmul_and_same_scale")
          IN Returned(st3, model, traced.ops)

\* ------------------------------------------------------- _create_conv2d_model

\* ConvModel.__init__ (filter_shape is read from the enclosing call)
ConvModel__init__(id, filter_shape) ==
  [cls |-> "ConvModel", id |-> id, out_channel_size |-> LastOf(filter_shape),
   filters |-> filter_shape, bias |-> <<LastOf(filter_shape)>>]

\* ConvModel.conv2d, traced (has_batch_norm is read from the enclosing call)
ConvModel_conv2d(self, has_batch_norm) ==
  Traced(<<"conv2d">> \o
         (IF has_batch_norm THEN <<"fused_batch_norm_v3">> ELSE <<>>))

_create_conv2d_model(d, id, input_shape, filter_shape, saved_model_path, has_bias, has_batch_norm, activation_fn) ==
  LET model == ConvModel__init__(id, filter_shape)
      st1 == Construct(CallState(d), model)
      traced == ConvModel_conv2d(model, has_batch_norm)
      st2 == get_concrete_function(st1, model)
      st3 == saved_model_save(st2, model, saved_model_path, "conv2d")
  IN Returned(st3, model, traced.ops)

\* ------------------------------------------------------- _create_einsum_model

\* EinsumModel.__init__ (bias_shape and y_shape are read from the enclosing call)
EinsumModel__init__(id, y_shape, bias_shape) ==
  [cls |-> "EinsumModel", id |-> id, _bias |-> bias_shape, _kernel |-> y_shape]

\* EinsumModel._einsum, traced
EinsumModel_einsum(self) ==
  Traced(<<"einsum">> \o (IF self._bias # None THEN <<"bias_add">> ELSE <<>>))

\* EinsumModel.einsum_with_kernel, traced
einsum_with_kernel(self) == EinsumModel_einsum(self)

_create_einsum_model(d, id, saved_model_path, equation, y_shape, x_signature, y_signature, bias_shape) ==
  LET model == EinsumModel__init__(id, y_shape, bias_shape)
      st1 == Construct(CallState(d), model)
      traced == einsum_with_kernel(model)
      st2 == get_concrete_function(st1, model)
      st3 == saved_model_save(st2, model, saved_model_path, "serving_default")
  IN Returned(st3, model, traced.ops)

\* ------------------------------------------------------------------- actions

\* What `last` keeps of a finished call.
CallRecord(builder, args, r) ==
  [builder |-> builder, args |-> args, outcome |-> r.outcome, err |-> r.err,
   events |-> r.events, ret |-> r.ret, model |-> r.model, ops |-> r.ops]

\* Every call constructs at most one model object, whose identity is nextId.
Constructed(r) == \E i \in 1..Len(r.events) : r.events[i].ev = "construct"

Finish(builder, args, r) ==
  /\ disk' = r.disk
  /\ last' = CallRecord(builder, args, r)
  /\ nextId' = IF Constructed(r) THEN nextId + 1 ELSE nextId

Init ==
  /\ disk = [p \in Paths |-> None]
  /\ last = [builder |-> "none", args |-> [saved_model_path |-> ""],
             outcome |-> "none", err |-> "", events |-> <<>>, ret |-> None,
             model |-> None, ops |-> <<>>]
  /\ nextId = 1
  /\ einsum_in = None
  /\ einsum_out = None

CreateMatmulModel(weight_shape, saved_model_path, has_bias, activation_fn, bias_size, use_biasadd) ==
  /\ nextId <= MaxCalls
  /\ Finish("_create_matmul_model",
            [input_shape |-> InputShape, weight_shape |-> weight_shape,
             saved_model_path |-> saved_model_path, has_bias |-> has_bias,
             activation_fn |-> activation_fn, bias_size |-> bias_size,
             use_biasadd |-> use_biasadd],
            _create_matmul_model(disk, nextId, InputShape, weight_shape,
                                 saved_model_path, has_bias, activation_fn,
                                 bias_size, use_biasadd))
  /\ UNCHANGED <<einsum_in, einsum_out>>

CreateMatmulAndSameScaleModel(weight_shape, saved_model_path, same_scale_op) ==
  /\ nextId <= MaxCalls
  /\ Finish("_create_matmul_and_same_scale_model",
            [input_shape |-> InputShape, weight_shape |-> weight_shape,
             saved_model_path |-> saved_model_path,
             same_scale_op |-> same_scale_op],
            _create_matmul_and_same_scale_model(disk, nextId, InputShape,
                                                weight_shape, saved_model_path,
                                                same_scale_op))
  /\ UNCHANGED <<einsum_in, einsum_out>>

CreateConv2dModel(filter_shape, saved_model_path, has_bias, has_batch_norm, activation_fn) ==
  /\ nextId <= MaxCalls
  /\ Finish("_create_conv2d_model",
            [input_shape |-> ConvInputShape, filter_shape |-> filter_shape,
             saved_model_path |-> saved_model_path, has_bias |-> has_bias,
             has_batch_norm |-> has_batch_norm,
             activation_fn |-> activation_fn],
            _create_conv2d_model(disk, nextId, ConvInputShape, filter_shape,
                                 saved_model_path, has_bias, has_batch_norm,
                                 activation_fn))
  /\ UNCHANGED <<einsum_in, einsum_out>>

\* A test derives the shapes with _prepare_sample_einsum_datashapes ...
PrepareEinsum(call) ==
  /\ einsum_in' = Some(call)
  /\ einsum_out' = Some(_prepare_sample_einsum_datashapes(
                          call.equation, call.generate_unknown_shape_signature,
                          call.use_bias))
  /\ UNCHANGED <<disk, last, nextId>>

\* ... and hands them to _create_einsum_model.
CreateEinsumModel(saved_model_path) ==
  /\ nextId <= MaxCalls
  /\ einsum_out # None
  /\ LET call == Unwrap(einsum_in)
         shapes == Unwrap(einsum_out)
     IN Finish("_create_einsum_model",
               [saved_model_path |-> saved_model_path,
                equation |-> call.equation, y_shape |-> shapes.y_shape,
                x_signature |-> shapes.x_signature,
                y_signature |-> shapes.y_signature,
                bias_shape |-> shapes.bias_shape],
               _create_einsum_model(disk, nextId, saved_model_path,
                                    call.equation, shapes.y_shape,
                                    shapes.x_signature, shapes.y_signature,
                                    shapes.bias_shape))
  /\ UNCHANGED <<einsum_in, einsum_out>>

\* The equations the builder tests use.
SampleEinsumCalls ==
  {EinsumCall(<<"a", "b", "c">>, <<"c", "d">>, <<"a", "b", "d">>, gen, bias) :
     gen \in BOOLEAN, bias \in BOOLEAN}

Next ==
  \/ \E w \in WeightShapes, p \in Paths, hb \in BOOLEAN, act \in ActivationFns,
        bs \in BiasSizes, ub \in BOOLEAN :
       CreateMatmulModel(w, p, hb, act, bs, ub)
  \/ \E w \in WeightShapes, p \in Paths, op \in SameScaleOps \cup UnknownOps :
       CreateMatmulAndSameScaleModel(w, p, op)
  \/ \E f \in FilterShapes, p \in Paths, hb \in BOOLEAN, bn \in BOOLEAN,
        act \in ActivationFns :
       CreateConv2dModel(f, p, hb, bn, act)
  \/ \E call \in SampleEinsumCalls : PrepareEinsum(call)
  \/ \E p \in Paths : CreateEinsumModel(p)

Spec == Init /\ [][Next]_vars

\* The shape deriver alone: Init draws its arguments, the one action applies it.
InitEinsum ==
  /\ disk = [p \in Paths |-> None]
  /\ last = [builder |-> "none", args |-> [saved_model_path |-> ""],
             outcome |-> "none", err |-> "", events |-> <<>>, ret |-> None,
             model |-> None, ops |-> <<>>]
  /\ nextId = 1
  /\ \E t \in LengthSplits :
       \E x \in LabelStrings(t[1]), y \in LabelStrings(t[2]),
          z \in LabelStrings(t[3]), gen \in BOOLEAN, bias \in BOOLEAN :
         einsum_in = Some(EinsumCall(x, y, z, gen, bias))
  /\ einsum_out = None

ApplyPrepareEinsum ==
  /\ einsum_in # None
  /\ einsum_out = None
  /\ PrepareEinsum(Unwrap(einsum_in))

NextEinsum == ApplyPrepareEinsum

SpecEinsum == InitEinsum /\ [][NextEinsum]_vars

\* -------------------------------------------------------------------- claims

\* The TensorFlow op each same-scale name stands for.
MatchingOp(name) == IF name = "concatenate" THEN "concat" ELSE name

SameScaleTfOps == {MatchingOp(name) : name \in SameScaleOps}

Positions(seq, P(_)) == {i \in 1..Len(seq) : P(seq[i])}

IsConstruct(e) == e.ev = "construct"

IsSave(e) == e.ev = "save"

IsReturn(e) == e.ev = "return"

IsSameScaleTfOp(op) == op \in SameScaleTfOps

IsBiasAddition(op) == op \in {"bias_add", "add_v2"}

IsBatchNorm(op) == op = "fused_batch_norm_v3"

\* The op sequence `first`, then a bias addition iff bias, then a batch norm iff
\* norm, then the activation iff one is given.
FollowsFlags(ops, first, bias, norm, activation_fn) ==
  LET nb == IF bias THEN 1 ELSE 0
      nn == IF norm THEN 1 ELSE 0
      na == IF activation_fn # None THEN 1 ELSE 0
  IN /\ Len(ops) = 1 + nb + nn + na
     /\ ops[1] = first
     /\ bias => IsBiasAddition(ops[2])
     /\ norm => IsBatchNorm(ops[2 + nb])
     /\ activation_fn # None => ops[2 + nb + nn] = Unwrap(activation_fn)

\* The table of sizes the claims quote: a:4, b:32, c:64, d:128, e:8.
ClaimedSize(label) ==
  CASE label = "a" -> 4
    [] label = "b" -> 32
    [] label = "c" -> 64
    [] label = "d" -> 128
    [] label = "e" -> 8

\* C1: _create_matmul_and_same_scale_model raises NotImplementedError iff
\* same_scale_op is not one of the seven known names; for each of the seven it
\* returns, and the traced function is the matmul followed by exactly the
\* matching same-scale op (as its last op, and no other same-scale op).
C1_SameScaleDispatch ==
  last.builder = "_create_matmul_and_same_scale_model" =>
    LET op == last.args.same_scale_op
    IN /\ (last.outcome = "raised" /\ last.err = "NotImplementedError")
            <=> op \notin SameScaleOps
       /\ op \in SameScaleOps =>
            /\ last.outcome = "returned"
            /\ last.ops[1] = "matmul"
            /\ LastOf(last.ops) = MatchingOp(op)
            /\ Positions(last.ops, IsSameScaleTfOp) = {Len(last.ops)}

C1_Witness ==
  /\ last.builder = "_create_matmul_and_same_scale_model"
  /\ last.args.same_scale_op = "Reshape"
  /\ last.outcome = "raised"
  /\ \E p \in Paths :
       disk[p] = Some([cls |-> "MatmulAndSameScaleModel",
                       fn |-> "matmul_and_same_scale"])

\* C2: in _create_matmul_model, has_bias=True with bias_size=None defaults the
\* bias size to weight_shape[-1]; a call returns only when the (defaulted) bias
\* size is None exactly if has_bias is False; has_bias=False with a bias_size
\* given fails the assertion.
C2_BiasConsistency ==
  last.builder = "_create_matmul_model" =>
    LET a == last.args
    IN /\ (a.has_bias /\ a.bias_size = None) =>
            /\ last.outcome = "returned"
            /\ Unwrap(last.model).bias_size = Some(LastOf(a.weight_shape))
       /\ last.outcome = "returned" =>
            ((Unwrap(last.model).bias_size = None) <=> ~a.has_bias)
       /\ (~a.has_bias /\ a.bias_size # None) =>
            (last.outcome = "raised" /\ last.err = "AssertionError")

C2_Witness ==
  /\ last.builder = "_create_matmul_model"
  /\ last.args.has_bias
  /\ last.args.bias_size = None
  /\ last.outcome = "returned"
  /\ Unwrap(last.model).bias_size = Some(3)

\* C3: the entry point saved by _create_matmul_model is the matmul, then a
\* bias addition iff has_bias, then the activation iff activation_fn is given.
C3_MatmulOps ==
  (last.builder = "_create_matmul_model" /\ last.outcome = "returned") =>
    FollowsFlags(last.ops, "matmul", last.args.has_bias, FALSE,
                 last.args.activation_fn)

\* C4: the entry point saved by _create_conv2d_model is the convolution, then
\* a bias addition iff has_bias, then a fused batch norm iff has_batch_norm,
\* then the activation iff activation_fn is given.
C4_Conv2dOps ==
  (last.builder = "_create_conv2d_model" /\ last.outcome = "returned") =>
    FollowsFlags(last.ops, "conv2d", last.args.has_bias,
                 last.args.has_batch_norm, last.args.activation_fn)

\* A signature keeps the sample size exactly at the positions in `known`, and
\* is None everywhere else.
SignatureKnownAt(signature, labels, known(_)) ==
  /\ Len(signature) = Len(labels)
  /\ \A i \in 1..Len(labels) :
       signature[i] = IF known(labels[i]) THEN Some(ClaimedSize(labels[i]))
                      ELSE None

\* C5 as stated: with generate_unknown_shape_signature=True a dimension of
\* x_signature / y_signature is None exactly where its label occurs in both
\* operands, and keeps its sample size elsewhere.
C5_SharedDimsUnknown ==
  (einsum_in # None /\ einsum_out # None
     /\ Unwrap(einsum_in).generate_unknown_shape_signature) =>
    LET c == Unwrap(einsum_in)
        r == Unwrap(einsum_out)
        NotShared(l) == ~(In(l, c.x) /\ In(l, c.y))
    IN /\ SignatureKnownAt(r.x_signature, c.x, NotShared)
       /\ SignatureKnownAt(r.y_signature, c.y, NotShared)

\* C5 amended: with generate_unknown_shape_signature=True a dimension of
\* x_signature / y_signature keeps its sample size exactly where its label
\* occurs in both operands, and is None everywhere else.
C5_UnsharedDimsUnknown ==
  (einsum_in # None /\ einsum_out # None
     /\ Unwrap(einsum_in).generate_unknown_shape_signature) =>
    LET c == Unwrap(einsum_in)
        r == Unwrap(einsum_out)
        Shared(l) == In(l, c.x) /\ In(l, c.y)
    IN /\ SignatureKnownAt(r.x_signature, c.x, Shared)
       /\ SignatureKnownAt(r.y_signature, c.y, Shared)

C5_Witness ==
  /\ einsum_in # None
  /\ einsum_out # None
  /\ Unwrap(einsum_in).generate_unknown_shape_signature
  /\ Unwrap(einsum_in).x = <<"a", "b">>
  /\ Unwrap(einsum_in).y = <<"b", "c">>
  /\ Unwrap(einsum_out).x_signature = <<None, Some(32)>>
  /\ Unwrap(einsum_out).y_signature = <<Some(32), None>>

\* C6: a builder call that returns has constructed one model object, then
\* invoked save exactly once, with that object and the caller's
\* saved_model_path, and then returned that same object.
C6_ConstructSaveReturn ==
  last.outcome = "returned" =>
    LET ev == last.events
        cs == Positions(ev, IsConstruct)
        ss == Positions(ev, IsSave)
        rs == Positions(ev, IsReturn)
    IN /\ Cardinality(cs) = 1
       /\ Cardinality(ss) = 1
       /\ rs = {Len(ev)}
       /\ \A c \in cs, s \in ss, r \in rs :
            /\ c < s
            /\ s < r
            /\ ev[s].obj = ev[c].obj
            /\ ev[s].path = last.args.saved_model_path
            /\ last.ret = Some(ev[c].obj)
            /\ Unwrap(last.model).id = ev[c].obj
       /\ disk[last.args.saved_model_path] # None

C6_Witness ==
  /\ last.builder = "_create_einsum_model"
  /\ last.outcome = "returned"
  /\ last.args.saved_model_path = "output2"
  /\ disk["output2"] = Some([cls |-> "EinsumModel", fn |-> "serving_default"])
  /\ disk["input"] # None

\* C7: the MatmulModel built by _create_matmul_model has use_biasadd equal to
\* the use_biasadd argument of the call.
C7_UseBiasaddPassed ==
  (last.builder = "_create_matmul_model" /\ last.outcome = "returned") =>
    Unwrap(last.model).use_biasadd = last.args.use_biasadd

\* C8: with generate_unknown_shape_signature=False, x_shape and y_shape hold
\* the table size of each label of X and Y in label order, and the signatures
\* equal the shapes (no None dimension).
C8_KnownShapes ==
  (einsum_in # None /\ einsum_out # None
     /\ ~Unwrap(einsum_in).generate_unknown_shape_signature) =>
    LET c == Unwrap(einsum_in)
        r == Unwrap(einsum_out)
        Always(l) == TRUE
    IN /\ SignatureKnownAt(r.x_shape, c.x, Always)
       /\ SignatureKnownAt(r.y_shape, c.y, Always)
       /\ r.x_signature = r.x_shape
       /\ r.y_signature = r.y_shape

C8_Witness ==
  /\ einsum_in # None
  /\ einsum_out # None
  /\ ~Unwrap(einsum_in).generate_unknown_shape_signature
  /\ Unwrap(einsum_in).x = <<"e", "b">>
  /\ Unwrap(einsum_in).y = <<"b", "d">>
  /\ Unwrap(einsum_out).x_signature = <<Some(8), Some(32)>>
  /\ Unwrap(einsum_out).y_shape = <<Some(32), Some(128)>>

\* C9 as stated: bias_shape is None iff use_bias is False; when use_bias is
\* True it is a one-element list whose entry is a known size, the table size
\* of Z's last label, and never None (Z possibly empty).
C9_BiasShapeKnown ==
  (einsum_in # None /\ einsum_out # None) =>
    LET c == Unwrap(einsum_in)
        r == Unwrap(einsum_out)
    IN /\ (r.bias_shape = None) <=> ~c.use_bias
       /\ c.use_bias =>
            /\ Len(Unwrap(r.bias_shape)) = 1
            /\ Unwrap(r.bias_shape)[1] # None
            /\ c.z # <<>> =>
                 Unwrap(r.bias_shape)[1] = Some(ClaimedSize(LastOf(c.z)))

\* C9 amended: bias_shape is None iff use_bias is False; when use_bias is True
\* it is a one-element list: the table size of Z's last label when Z is not
\* empty, and None (the entry the '>' of the arrow contributes) when Z is empty.
C9_BiasShapeLastOutLabel ==
  (einsum_in # None /\ einsum_out # None) =>
    LET c == Unwrap(einsum_in)
        r == Unwrap(einsum_out)
    IN /\ (r.bias_shape = None) <=> ~c.use_bias
       /\ c.use_bias =>
            /\ Len(Unwrap(r.bias_shape)) = 1
            /\ Unwrap(r.bias_shape)[1] =
                 IF c.z # <<>> THEN Some(ClaimedSize(LastOf(c.z))) ELSE None

C9_Witness ==
  /\ einsum_in # None
  /\ einsum_out # None
  /\ Unwrap(einsum_in).use_bias
  /\ Unwrap(einsum_in).z = <<"a", "d">>
  /\ Unwrap(einsum_out).bias_shape = Some(<<Some(128)>>)

\* C10: a builder call that raises (the bias assertion of _create_matmul_model,
\* the NotImplementedError of _create_matmul_and_same_scale_model) has not
\* invoked save, and every saved_model_path holds what it held before the call.
C10_FailedCallWritesNothing ==
  [][(last'.outcome = "raised" /\ last'.err \in {"AssertionError", "NotImplementedError"})
       => (disk' = disk /\ Positions(last'.events, IsSave) = {})]_vars

C10_Witness ==
  /\ last.builder = "_create_matmul_and_same_scale_model"
  /\ last.outcome = "raised"
  /\ last.err = "NotImplementedError"
  /\ Positions(last.events, IsConstruct) # {}
  /\ disk[last.args.saved_model_path] = Some([cls |-> "ConvModel", fn |-> "conv2d"])
====
